---- MODULE Spec2Model ----
(***************************************************************************)
(* BYOM provider: the ConfigMap-backed IP pool allocator                   *)
(* (src/src/cloud-providers/byom).  Several provider replicas share one    *)
(* ConfigMap that holds the IPAllocationState; every Kubernetes API call   *)
(* (Get, Create, Update) is one atomic step, the local computation of a    *)
(* handler is folded into the step of the API call that precedes it.       *)
(***************************************************************************)
EXTENDS Integers, Sequences, FiniteSets, TLC

(* ---------------------------------------------------------------------- *)
(* Bounds and configuration                                                *)
(* ---------------------------------------------------------------------- *)

\* number of AllocateIP / DeallocateIP calls started in one behaviour
MaxOps == 2

\* retry.DefaultBackoff.Steps of client-go: the body runs at most this often
RetrySteps == 4

\* GlobalVMPoolConfig.MaxRetries as NewProvider sets it
MaxRetries == 5

\* a replica outside Replicas writes only while the ResourceVersion is below this
MaxRevision == 5

None == "none"

\* config.PoolIPs of every replica, in configured order
PoolIPs == <<"10.0.0.1", "10.0.0.2", "10.0.0.3">>

\* an address that an earlier run had in its pool and this run has not
RogueIP == "10.0.0.99"

\* worker nodes that run a provider replica (NODE_NAME of the replica)
Replicas == {"n1", "n2"}

\* request goroutines; two of them belong to the replica on n1
Threads == {1, 2, 3}

NodeOf(t) == IF t = 3 THEN "n2" ELSE "n1"

\* allocation IDs the callers use (pod name "-" sandbox id)
AllocIDs == {"podA-s1", "podC-s3"}

Pods == {"podA", "podC"}

\* the three state-recovery implementations the repository carries
RecoveryBuilds == {"release", "cleanup", "keep"}

(* ---------------------------------------------------------------------- *)
(* Pure helpers                                                            *)
(* ---------------------------------------------------------------------- *)

SeqToSet(s) == {s[i] : i \in 1..Len(s)}

NoDup(s) == \A i, j \in 1..Len(s) : i # j => s[i] # s[j]

\* all orders in which a Go map with key set S can be iterated
Perms(S) == {p \in [1..Cardinality(S) -> S] : \A i, j \in 1..Cardinality(S) : i # j => p[i] # p[j]}

RemoveAt(s, i) == SubSeq(s, 1, i - 1) \o SubSeq(s, i + 1, Len(s))

\* position of an address in the byte-wise string order sort.Strings uses
IPRank(ip) ==
    CASE ip = "10.0.0.1" -> 1
      [] ip = "10.0.0.2" -> 2
      [] ip = "10.0.0.3" -> 3
      [] OTHER -> 4

RECURSIVE SortIPs(_)
SortIPs(S) ==
    IF S = {} THEN <<>>
    ELSE LET m == CHOOSE x \in S : \A y \in S : IPRank(x) <= IPRank(y)
         IN <<m>> \o SortIPs(S \ {m})

RECURSIVE InsertSorted(_, _)
InsertSorted(x, s) ==
    IF s = <<>> THEN <<x>>
    ELSE IF IPRank(x) <= IPRank(Head(s)) THEN <<x>> \o s
    ELSE <<Head(s)>> \o InsertSorted(x, Tail(s))

\* sort.Strings on a slice (duplicates are kept)
RECURSIVE SortStrings(_)
SortStrings(s) == IF s = <<>> THEN <<>> ELSE InsertSorted(Head(s), SortStrings(Tail(s)))

\* md5.Sum(allocationID)[:4] as two big-endian 16-bit words <<high, low>>;
\* binary.BigEndian.Uint32 of it is high * 65536 + low
Seed(id) ==
    CASE id = "podA-s1" -> <<38625, 34087>>
      [] id = "podB-s2" -> <<21411, 52203>>
      [] id = "podC-s3" -> <<51756, 50716>>
      [] OTHER -> <<7639, 53745>>

\* int(seed) % n for a 64-bit int, computed word by word
SeedMod(seed, n) == ((seed[1] % n) * (65536 % n) + (seed[2] % n)) % n

\* selectIPIndex that always takes the head of the list
selectIPIndexFirst(availableIPs, allocationID) == 0

selectIPIndex(availableIPs, allocationID) ==
    IF Len(availableIPs) <= 1 THEN 0
    ELSE SeedMod(Seed(allocationID), Len(availableIPs))

\* A string of the environment is a sequence of pieces: white space
\* characters and at most one run of other characters (a name)
Whitespace == {" ", "\t", "\n"}

\* in place of a file's content: os.ReadFile returned an error
Unreadable == <<"ENOENT">>

RECURSIVE TrimLeft(_)
TrimLeft(s) == IF s # <<>> /\ Head(s) \in Whitespace THEN TrimLeft(Tail(s)) ELSE s

RECURSIVE TrimRight(_)
TrimRight(s) == IF s # <<>> /\ s[Len(s)] \in Whitespace THEN TrimRight(SubSeq(s, 1, Len(s) - 1)) ELSE s

\* strings.TrimSpace
TrimSpace(s) == TrimRight(TrimLeft(s))

\* the Go string of a trimmed sequence: empty, or its name
StringOf(s) == IF s = <<>> THEN "" ELSE s[1]

\* getCurrentNodeName: NODE_NAME when it is set to a non-empty string, else
\* the first of the two files that is readable and not blank; the value is
\* returned trimmed
getCurrentNodeName(src) ==
    IF src.env # <<>>
    THEN [name |-> StringOf(TrimSpace(src.env)), err |-> None]
    ELSE IF src.podinfo # Unreadable /\ TrimSpace(src.podinfo) # <<>>
    THEN [name |-> StringOf(TrimSpace(src.podinfo)), err |-> None]
    ELSE IF src.hostname # Unreadable /\ TrimSpace(src.hostname) # <<>>
    THEN [name |-> StringOf(TrimSpace(src.hostname)), err |-> None]
    ELSE [name |-> "", err |-> "ErrNodeNameDetection"]

\* the container of the replica on node n as the deployment sets it up:
\* NODE_NAME from spec.nodeName, no downward API volume, the pod's hostname
Deployed(n) == [env |-> <<n>>, podinfo |-> Unreadable, hostname |-> <<"caa-pod", "\n">>]

\* a container in which no source yields a name
Nameless == [env |-> <<>>, podinfo |-> Unreadable, hostname |-> Unreadable]

\* netip.ParseAddr of a string fails
ParseAddrFails(ip) == ip = "not-an-ip"

AllocatedIPsOf(st) == {st.alloc[i].ip : i \in DOMAIN st.alloc}

EmptyAlloc == [i \in {} |-> None]

initializeEmptyState == [alloc |-> EmptyAlloc, avail |-> PoolIPs, version |-> 1]


\* placeholder for a state slot that holds nothing
NoState == [alloc |-> EmptyAlloc, avail |-> <<>>, version |-> 0]

NoStore == [exists |-> FALSE, rv |-> 0, st |-> NoState]

NoArg == [id |-> None, pod |-> None]

NoRes == [t |-> 0, op |-> None, id |-> None, kind |-> None, ip |-> None, prev |-> None]

(* ---------------------------------------------------------------------- *)
(* Allocator bodies as functions of the state that was read                *)
(* ---------------------------------------------------------------------- *)

\* doAllocateIP that leaves the selected IP in the available list
AllocateDecisionKeepsSelected(state, id, pod, node) ==
    IF id \in DOMAIN state.alloc
    THEN [kind |-> "existing", ip |-> state.alloc[id].ip, st |-> state]
    ELSE IF Len(state.avail) = 0
    THEN [kind |-> "exhausted", ip |-> None, st |-> state]
    ELSE LET idx == selectIPIndex(state.avail, id) + 1
             ipStr == state.avail[idx]
         IN [kind |-> "write", ip |-> ipStr,
             st |-> [alloc |-> (id :> [ip |-> ipStr, node |-> node, pod |-> pod]) @@ state.alloc,
                     avail |-> state.avail,
                     version |-> state.version + 1]]

\* doAllocateIP that stamps and saves the state when the ID is already allocated
AllocateDecisionRewritesExisting(state, id, pod, node) ==
    IF id \in DOMAIN state.alloc
    THEN [kind |-> "write", ip |-> state.alloc[id].ip,
          st |-> [state EXCEPT !.version = @ + 1]]
    ELSE IF Len(state.avail) = 0
    THEN [kind |-> "exhausted", ip |-> None, st |-> state]
    ELSE LET idx == selectIPIndex(state.avail, id) + 1
             ipStr == state.avail[idx]
         IN [kind |-> "write", ip |-> ipStr,
             st |-> [alloc |-> (id :> [ip |-> ipStr, node |-> node, pod |-> pod]) @@ state.alloc,
                     avail |-> RemoveAt(state.avail, idx),
                     version |-> state.version + 1]]

\* doAllocateIP that writes a row without an address when nothing is available
AllocateDecisionWritesWhenExhausted(state, id, pod, node) ==
    IF id \in DOMAIN state.alloc
    THEN [kind |-> "existing", ip |-> state.alloc[id].ip, st |-> state]
    ELSE IF Len(state.avail) = 0
    THEN [kind |-> "write", ip |-> None,
          st |-> [alloc |-> (id :> [ip |-> None, node |-> node, pod |-> pod]) @@ state.alloc,
                  avail |-> state.avail,
                  version |-> state.version + 1]]
    ELSE LET idx == selectIPIndex(state.avail, id) + 1
             ipStr == state.avail[idx]
         IN [kind |-> "write", ip |-> ipStr,
             st |-> [alloc |-> (id :> [ip |-> ipStr, node |-> node, pod |-> pod]) @@ state.alloc,
                     avail |-> RemoveAt(state.avail, idx),
                     version |-> state.version + 1]]

\* doAllocateIP between getCurrentState and updateState
AllocateDecision(state, id, pod, node) ==
    IF id \in DOMAIN state.alloc
    THEN [kind |-> "existing", ip |-> state.alloc[id].ip, st |-> state]
    ELSE IF Len(state.avail) = 0
    THEN [kind |-> "exhausted", ip |-> None, st |-> state]
    ELSE LET idx == selectIPIndex(state.avail, id) + 1
             ipStr == state.avail[idx]
         IN [kind |-> "write", ip |-> ipStr,
             st |-> [alloc |-> (id :> [ip |-> ipStr, node |-> node, pod |-> pod]) @@ state.alloc,
                     avail |-> RemoveAt(state.avail, idx),
                     version |-> state.version + 1]]

\* doDeallocateIP that returns the IP to the available list twice
DeallocateDecisionAppendsTwice(state, id) ==
    IF id \notin DOMAIN state.alloc
    THEN [kind |-> "noop", st |-> state]
    ELSE [kind |-> "write",
          st |-> [alloc |-> [i \in DOMAIN state.alloc \ {id} |-> state.alloc[i]],
                  avail |-> Append(Append(state.avail, state.alloc[id].ip), state.alloc[id].ip),
                  version |-> state.version + 1]]

\* doDeallocateIP that stamps and saves the state when the ID is unknown
DeallocateDecisionWritesUnknown(state, id) ==
    IF id \notin DOMAIN state.alloc
    THEN [kind |-> "write", st |-> [state EXCEPT !.version = @ + 1]]
    ELSE [kind |-> "write",
          st |-> [alloc |-> [i \in DOMAIN state.alloc \ {id} |-> state.alloc[i]],
                  avail |-> Append(state.avail, state.alloc[id].ip),
                  version |-> state.version + 1]]

\* doDeallocateIP that puts the released IP in front of the available list
DeallocateDecisionPrepends(state, id) ==
    IF id \notin DOMAIN state.alloc
    THEN [kind |-> "noop", st |-> state]
    ELSE [kind |-> "write",
          st |-> [alloc |-> [i \in DOMAIN state.alloc \ {id} |-> state.alloc[i]],
                  avail |-> <<state.alloc[id].ip>> \o state.avail,
                  version |-> state.version + 1]]

\* doDeallocateIP that deletes the row and does not return its IP
DeallocateDecisionDropsIP(state, id) ==
    IF id \notin DOMAIN state.alloc
    THEN [kind |-> "noop", st |-> state]
    ELSE [kind |-> "write",
          st |-> [alloc |-> [i \in DOMAIN state.alloc \ {id} |-> state.alloc[i]],
                  avail |-> state.avail,
                  version |-> state.version + 1]]

\* doDeallocateIP between getCurrentState and updateState
DeallocateDecision(state, id) ==
    IF id \notin DOMAIN state.alloc
    THEN [kind |-> "noop", st |-> state]
    ELSE [kind |-> "write",
          st |-> [alloc |-> [i \in DOMAIN state.alloc \ {id} |-> state.alloc[i]],
                  avail |-> Append(state.avail, state.alloc[id].ip),
                  version |-> state.version + 1]]

\* GetPoolStatus: (total, available, inUse) of a state
GetPoolStatus(state) ==
    [total |-> Len(state.avail) + Cardinality(DOMAIN state.alloc),
     available |-> Len(state.avail),
     inUse |-> Cardinality(DOMAIN state.alloc)]

(* ---------------------------------------------------------------------- *)
(* State                                                                   *)
(* ---------------------------------------------------------------------- *)

VARIABLES
    build,      \* which state-recovery implementation the replicas run
    initKind,   \* what the store held when the replicas started
    store,      \* the ConfigMap: exists, ResourceVersion, IPAllocationState
    mutex,      \* cm.mutex of each replica: the thread holding it, or 0
    rec,        \* RecoverState of each replica: "no", "running", "done"
    pc,         \* position of each thread
    op,         \* operation a thread is executing
    arg,        \* its arguments
    tries,      \* bodies already run by RetryOnConflict in this call
    seen,       \* ResourceVersion returned by the body's getCurrentState (0: "")
    exp,        \* expectedResourceVersion passed to updateState (0: "")
    pend,       \* the state updateState is asked to write
    got,        \* ResourceVersion of the ConfigMap updateState fetched
    ret,        \* result of the call that returned last
    held,       \* per allocation ID: the IP its last AllocateIP returned
    ops,        \* calls started so far
    last,       \* the last successful store write
    inst,       \* the CreateInstance / DeleteInstance call a thread is in
    vmCleanupResults,   \* per replica: the IPs its recovery sent a reboot file to
    currentNode,\* per replica: the name and the error getCurrentNodeName returns
    osEnv       \* per replica: NODE_NAME and the two files of its container

vars == <<build, initKind, store, mutex, rec, pc, op, arg, tries, seen, exp, pend, got, ret, held, ops, last, inst,
          vmCleanupResults, currentNode, osEnv>>

\* what a provider call observed of the pool when it started
NoPre == [alloc |-> EmptyAlloc, avail |-> {}]

\* no CreateInstance / DeleteInstance in progress.  step is the position of a
\* CreateInstance, k the number of DeleteOrder steps a DeleteInstance has done,
\* rv the ResourceVersion the store has if only this call wrote since it
\* started (-1 once somebody else did), made the ID of the instance the
\* caller's last CreateInstance returned
NoInst == [call |-> None, id |-> None, ip |-> None, step |-> None, k |-> 0,
           reboot |-> None, pre |-> NoPre, rv |-> 0, made |-> None]

NoWrite == [op |-> None, t |-> 0, seen |-> 0, prevExists |-> FALSE, prevRv |-> 0, prevVersion |-> 0,
            call |-> None, reboot |-> None]

\* vmCleanupResults of releaseNodeAllocations: the IPs the cleanup function
\* returned nil for, and those it returned an error for
NoCleanup == [ok |-> {}, failed |-> {}]

\* the state getCurrentState hands to its caller, and the ResourceVersion
getCurrentState == IF store.exists THEN store.st ELSE initializeEmptyState

getCurrentRv == IF store.exists THEN store.rv ELSE 0


(* ---------------------------------------------------------------------- *)
(* State recovery as functions of the state that was read                  *)
(* ---------------------------------------------------------------------- *)

LocalRows(state, nodeName) == {i \in DOMAIN state.alloc : state.alloc[i].node = nodeName}

RECURSIVE CleanedIPs(_, _, _)
\* successfullyCleanedIPs: the node's IPs, in iteration order, whose cleanup
\* did not fail
CleanedIPs(state, order, okIPs) ==
    IF order = <<>> THEN <<>>
    ELSE LET ip == state.alloc[Head(order)].ip
         IN (IF ip \in okIPs THEN <<ip>> ELSE <<>>) \o CleanedIPs(state, Tail(order), okIPs)

\* releaseNodeAllocations: the state it writes.  order is the iteration order
\* of the node's rows, okIPs the addresses whose cleanup result is nil (all of
\* them when no cleanup function is given).
releaseNodeAllocations(state, nodeName, order, okIPs) ==
    LET mine == LocalRows(state, nodeName)
        keep == {i \in DOMAIN state.alloc : i \notin mine \/ state.alloc[i].ip \notin okIPs}
    IN [alloc |-> [i \in keep |-> state.alloc[i]],
        avail |-> state.avail \o CleanedIPs(state, order, okIPs),
        version |-> state.version + 1]

RECURSIVE KeepRows(_, _, _)
\* the loop over state.AllocatedIPs of validateAndRepairState: a row is kept
\* when its IP is still in the configured set, and takes the IP out of it
KeepRows(alloc, order, conf) ==
    IF order = <<>> THEN [ids |-> {}, conf |-> conf]
    ELSE LET id == Head(order)
             ip == alloc[id].ip
         IN IF ip \in conf
            THEN LET r == KeepRows(alloc, Tail(order), conf \ {ip})
                 IN [ids |-> r.ids \cup {id}, conf |-> r.conf]
            ELSE KeepRows(alloc, Tail(order), conf)

RECURSIVE KeepAvail(_, _)
\* the loop over state.AvailableIPs of validateAndRepairState
KeepAvail(avail, conf) ==
    IF avail = <<>> THEN [ips |-> <<>>, conf |-> conf]
    ELSE IF Head(avail) \in conf
         THEN LET r == KeepAvail(Tail(avail), conf \ {Head(avail)})
              IN [ips |-> <<Head(avail)>> \o r.ips, conf |-> r.conf]
         ELSE KeepAvail(Tail(avail), conf)

\* validateAndRepairState of state_recovery.go, up to the missing IPs
validateAndRepairRows(state, order) ==
    LET k == KeepRows(state.alloc, order, SeqToSet(PoolIPs))
        a == KeepAvail(state.avail, k.conf)
    IN [ids |-> k.ids, ips |-> a.ips, missing |-> a.conf]

\* state_recovery.go: repairs are detected by the two lengths only
RepairNeededByLen(state, newAlloc, newAvail) ==
    \/ Cardinality(DOMAIN newAlloc) # Cardinality(DOMAIN state.alloc)
    \/ Len(newAvail) # Len(state.avail)

\* validateAndRepairState of state_recovery.go; missing is the iteration order
\* of the configured IPs found in neither collection
validateAndRepairState(state, order, missing) ==
    LET v == validateAndRepairRows(state, order)
        newAlloc == [i \in v.ids |-> state.alloc[i]]
        newAvail == v.ips \o missing
    IN [changed |-> RepairNeededByLen(state, newAlloc, newAvail),
        st |-> [alloc |-> newAlloc, avail |-> newAvail, version |-> state.version + 1]]

\* validateAndRepairState of the cleanup build: the available list is rebuilt
\* from the configured set, sorted, and compared by content
validateAndRepairSorted(state, order) ==
    LET k == KeepRows(state.alloc, order, SeqToSet(PoolIPs))
        newAlloc == [i \in k.ids |-> state.alloc[i]]
        newAvail == SortIPs(k.conf)
    IN [changed |-> ~(newAlloc = state.alloc /\ newAvail = SortStrings(state.avail)),
        st |-> [alloc |-> newAlloc, avail |-> newAvail, version |-> state.version + 1]]

\* repairStateFromPrimaryConfig: every row is kept, the available list is the
\* configured pool without the allocated IPs; always written
repairStateFromPrimaryConfig(currentState) ==
    [alloc |-> currentState.alloc,
     avail |-> SelectSeq(PoolIPs, LAMBDA ip : ip \notin AllocatedIPsOf(currentState)),
     version |-> currentState.version + 1]


(* ---------------------------------------------------------------------- *)
(* Initial states                                                          *)
(* ---------------------------------------------------------------------- *)

Row(ip, node, pod) == [ip |-> ip, node |-> node, pod |-> pod]

Stored(rv, alloc, avail, version) ==
    [exists |-> TRUE, rv |-> rv, st |-> [alloc |-> alloc, avail |-> avail, version |-> version]]

\* what the ConfigMap can hold when the replicas start
InitStores ==
    { <<"absent", NoStore>>,
      <<"wellformed", Stored(1, EmptyAlloc, PoolIPs, 1)>>,
      <<"wellformed", Stored(2, "old-1" :> Row("10.0.0.2", "n2", "podA"), <<"10.0.0.1", "10.0.0.3">>, 2)>>,
      <<"wellformed", Stored(3, ("old-1" :> Row("10.0.0.2", "n0", "podA")) @@ ("old-2" :> Row("10.0.0.1", "n0", "podC")),
                             <<"10.0.0.3">>, 3)>>,
      <<"poolchanged", Stored(2, "old-1" :> Row(RogueIP, "n2", "podA"), <<"10.0.0.1", "10.0.0.2">>, 2)>>,
      <<"poolchanged", Stored(2, "old-1" :> Row("10.0.0.1", "n0", "podA"), <<"10.0.0.2", RogueIP>>, 2)>> }

\* the replicas start next to a ConfigMap that is one of stores; sources
\* gives each replica its environment
InitWith(stores, sources) ==
    /\ build \in RecoveryBuilds
    /\ osEnv = sources
    /\ currentNode = [n \in Replicas |-> getCurrentNodeName(osEnv[n])]
    /\ \E i \in stores : initKind = i[1] /\ store = i[2]
    /\ mutex = [n \in Replicas |-> 0]
    /\ rec = [n \in Replicas |-> "no"]
    /\ pc = [t \in Threads |-> "idle"]
    /\ op = [t \in Threads |-> None]
    /\ arg = [t \in Threads |-> NoArg]
    /\ tries = [t \in Threads |-> 0]
    /\ seen = [t \in Threads |-> 0]
    /\ exp = [t \in Threads |-> 0]
    /\ pend = [t \in Threads |-> NoState]
    /\ got = [t \in Threads |-> 0]
    /\ ret = NoRes
    /\ held = [i \in AllocIDs |-> None]
    /\ ops = 0
    /\ last = NoWrite
    /\ inst = [t \in Threads |-> NoInst]
    /\ vmCleanupResults = [n \in Replicas |-> NoCleanup]

\* every replica finds its node name (NODE_NAME is set by the deployment)
InitFrom(stores) == InitWith(stores, [n \in Replicas |-> Deployed(n)])

Init == InitFrom(InitStores)

(* ---------------------------------------------------------------------- *)
(* Leaving a handler                                                       *)
(* ---------------------------------------------------------------------- *)

\* DeleteInstance: the reboot trigger is pushed, then the IP is deallocated
DeleteOrder == <<"sendRebootFile", "DeallocateByIP">>

\* the provider call of thread t after its pool-manager call returned r:
\* CreateInstance goes on to configure the VM when AllocateIP succeeded and
\* returns otherwise; DeleteInstance returns after its last step
Returned(t, r) ==
    LET i == inst[t]
        wrote == pc[t] \in {"uPut", "uCreate"} /\ r.kind = "ok"
        rv2 == IF ~wrote THEN i.rv ELSE IF getCurrentRv = i.rv THEN i.rv + 1 ELSE -1
    IN CASE i.call = "create" /\ r.op = "alloc" /\ r.kind = "ok" ->
                [i EXCEPT !.ip = r.ip, !.step = "configure", !.rv = rv2]
         [] i.call = "delete" /\ i.k + 1 < Len(DeleteOrder) ->
                [i EXCEPT !.k = @ + 1]
         [] OTHER -> NoInst

Unlock(t) == mutex' = [mutex EXCEPT ![NodeOf(t)] = IF @ = t THEN 0 ELSE @]

\* the thread's locals are dropped when its call returns
Return(t, r) ==
    /\ pc' = [pc EXCEPT ![t] = "idle"]
    /\ op' = [op EXCEPT ![t] = None]
    /\ arg' = [arg EXCEPT ![t] = NoArg]
    /\ tries' = [tries EXCEPT ![t] = 0]
    /\ seen' = [seen EXCEPT ![t] = 0]
    /\ exp' = [exp EXCEPT ![t] = 0]
    /\ pend' = [pend EXCEPT ![t] = NoState]
    /\ got' = [got EXCEPT ![t] = 0]
    /\ ret' = r
    /\ inst' = [inst EXCEPT ![t] = Returned(t, r)]

Result(t, kind, ip) ==
    [t |-> t, op |-> op[t], id |-> arg[t].id, kind |-> kind, ip |-> ip,
     prev |-> IF op[t] = "alloc" THEN held[arg[t].id] ELSE None]

\* RetryOnConflict that gives up at the first Conflict
RetryNever(t, body) == Return(t, Result(t, "retryExhausted", None))

\* RetryOnConflict: the body returned a Conflict; it is run again unless
\* the backoff's steps are used up
Retry(t, body) ==
    IF tries[t] + 1 < RetrySteps
    THEN /\ pc' = [pc EXCEPT ![t] = body]
         /\ tries' = [tries EXCEPT ![t] = @ + 1]
         /\ seen' = [seen EXCEPT ![t] = 0]
         /\ exp' = [exp EXCEPT ![t] = 0]
         /\ pend' = [pend EXCEPT ![t] = NoState]
         /\ got' = [got EXCEPT ![t] = 0]
         /\ UNCHANGED <<op, arg, ret, inst>>
    ELSE Return(t, Result(t, "retryExhausted", None))

\* RecoverState returns: the provider starts serving
RecoverDone(t, kind) ==
    /\ Return(t, [NoRes EXCEPT !.t = t, !.op = "recover", !.kind = kind])
    /\ rec' = [rec EXCEPT ![NodeOf(t)] = "done"]
    /\ Unlock(t)
    /\ UNCHANGED held

\* RecoverState dereferences a nil state: the goroutine panics and, nothing
\* recovering from it, the process of the replica ends
RecoverPanic(t) ==
    /\ Return(t, [NoRes EXCEPT !.t = t, !.op = "recover", !.kind = "panic"])
    /\ rec' = [rec EXCEPT ![NodeOf(t)] = "crashed"]
    /\ UNCHANGED <<mutex, held>>

\* held after AllocateIP(id) returned ip: a return that overlaps a
\* DeallocateIP of the same ID is not counted as holding the address
Hold(id, ip) ==
    IF \E u \in Threads : op[u] = "dealloc" /\ arg[u].id = id
    THEN held' = held
    ELSE held' = [held EXCEPT ![id] = ip]

\* doAllocateIP returns the address of the row: netip.ParseAddr of the
\* stored string, ErrInvalidAllocatedIP when it does not parse
Allocated(t, ipStr) ==
    IF ParseAddrFails(ipStr)
    THEN Return(t, Result(t, "invalidIP", None)) /\ UNCHANGED held
    ELSE Return(t, Result(t, "ok", ipStr)) /\ Hold(arg[t].id, ipStr)

\* what the caller of updateState does with its outcome
Finish(t, out) ==
    CASE op[t] = "alloc" ->
            /\ Unlock(t)
            /\ UNCHANGED rec
            /\ CASE out = "ok" -> Allocated(t, pend[t].alloc[arg[t].id].ip)
                 [] out = "conflict" -> Retry(t, "allocBody") /\ UNCHANGED held
                 [] OTHER -> Return(t, Result(t, "error", None)) /\ UNCHANGED held
      [] op[t] = "dealloc" ->
            /\ Unlock(t)
            /\ UNCHANGED <<rec, held>>
            /\ CASE out = "ok" -> Return(t, Result(t, "ok", None))
                 [] out = "conflict" -> Retry(t, "deallocBody")
                 [] OTHER -> Return(t, Result(t, "error", None))
      [] op[t] = "release" ->
            \* RecoverState logs a failed release and goes on to re-fetch
            /\ pc' = [pc EXCEPT ![t] = "recRefetch"]
            /\ pend' = [pend EXCEPT ![t] = NoState]
            /\ exp' = [exp EXCEPT ![t] = 0]
            /\ seen' = [seen EXCEPT ![t] = 0]
            /\ got' = [got EXCEPT ![t] = 0]
            /\ UNCHANGED <<op, arg, tries, ret, held, rec, mutex, inst>>
      [] OTHER -> RecoverDone(t, IF out = "ok" \/ (build = "keep" /\ op[t] = "repair")
                                 THEN "ok" ELSE "error")


(* ---------------------------------------------------------------------- *)
(* AllocateIP / DeallocateIP                                               *)
(* ---------------------------------------------------------------------- *)

\* a caller invokes AllocateIP(allocationID, podName, ...)
StartAllocate(t, id, pod) ==
    /\ pc[t] = "idle"
    /\ rec[NodeOf(t)] = "done"
    /\ ops < MaxOps
    /\ ops' = ops + 1
    /\ pc' = [pc EXCEPT ![t] = "allocBody"]
    /\ op' = [op EXCEPT ![t] = "alloc"]
    /\ arg' = [arg EXCEPT ![t] = [id |-> id, pod |-> pod]]
    /\ UNCHANGED <<build, initKind, osEnv, currentNode, vmCleanupResults, store, mutex, rec, tries, seen, exp, pend, got, ret, held, last, inst>>

\* doAllocateIP that does not wait for cm.mutex
AllocBodyUnlocked(t) ==
    /\ pc[t] = "allocBody"
    /\ LET d == AllocateDecision(getCurrentState, arg[t].id, arg[t].pod, currentNode[NodeOf(t)].name)
       IN CASE d.kind = "existing" ->
                  /\ Allocated(t, d.ip)
                  /\ UNCHANGED <<store, mutex, last>>
            [] d.kind = "exhausted" ->
                  /\ Return(t, Result(t, "exhausted", None))
                  /\ UNCHANGED <<store, mutex, held, last>>
            [] currentNode[NodeOf(t)].err # None ->
                  \* getCurrentNodeName failed after the IP was selected
                  /\ Return(t, Result(t, "nodeNameDetection", None))
                  /\ UNCHANGED <<store, mutex, held, last>>
            [] OTHER ->
                  /\ mutex' = [mutex EXCEPT ![NodeOf(t)] = t]
                  /\ pc' = [pc EXCEPT ![t] = "uGet"]
                  /\ seen' = [seen EXCEPT ![t] = getCurrentRv]
                  /\ exp' = [exp EXCEPT ![t] = getCurrentRv]
                  /\ pend' = [pend EXCEPT ![t] = d.st]
                  /\ UNCHANGED <<store, op, arg, tries, got, ret, held, last, inst>>
    /\ UNCHANGED <<build, initKind, osEnv, currentNode, vmCleanupResults, rec, ops>>

\* doAllocateIP: lock, getCurrentState, decide; returns at once when the ID
\* is already allocated or the pool is exhausted, else enters updateState
AllocBody(t) ==
    /\ pc[t] = "allocBody"
    /\ mutex[NodeOf(t)] = 0
    /\ LET d == AllocateDecision(getCurrentState, arg[t].id, arg[t].pod, currentNode[NodeOf(t)].name)
       IN CASE d.kind = "existing" ->
                  /\ Allocated(t, d.ip)
                  /\ UNCHANGED <<store, mutex, last>>
            [] d.kind = "exhausted" ->
                  /\ Return(t, Result(t, "exhausted", None))
                  /\ UNCHANGED <<store, mutex, held, last>>
            [] currentNode[NodeOf(t)].err # None ->
                  \* getCurrentNodeName failed after the IP was selected
                  /\ Return(t, Result(t, "nodeNameDetection", None))
                  /\ UNCHANGED <<store, mutex, held, last>>
            [] OTHER ->
                  /\ mutex' = [mutex EXCEPT ![NodeOf(t)] = t]
                  /\ pc' = [pc EXCEPT ![t] = "uGet"]
                  /\ seen' = [seen EXCEPT ![t] = getCurrentRv]
                  /\ exp' = [exp EXCEPT ![t] = getCurrentRv]
                  /\ pend' = [pend EXCEPT ![t] = d.st]
                  /\ UNCHANGED <<store, op, arg, tries, got, ret, held, last, inst>>
    /\ UNCHANGED <<build, initKind, osEnv, currentNode, vmCleanupResults, rec, ops>>

\* a caller invokes DeallocateIP(allocationID)
StartDeallocate(t, id) ==
    /\ pc[t] = "idle"
    /\ rec[NodeOf(t)] = "done"
    /\ ops < MaxOps
    /\ ops' = ops + 1
    /\ pc' = [pc EXCEPT ![t] = "deallocBody"]
    /\ op' = [op EXCEPT ![t] = "dealloc"]
    /\ arg' = [arg EXCEPT ![t] = [id |-> id, pod |-> None]]
    /\ held' = [held EXCEPT ![id] = None]
    /\ UNCHANGED <<build, initKind, osEnv, currentNode, vmCleanupResults, store, mutex, rec, tries, seen, exp, pend, got, ret, last, inst>>

\* doDeallocateIP: lock, getCurrentState, decide
DeallocBody(t) ==
    /\ pc[t] = "deallocBody"
    /\ mutex[NodeOf(t)] = 0
    /\ LET d == DeallocateDecision(getCurrentState, arg[t].id)
       IN CASE d.kind = "noop" ->
                  /\ Return(t, Result(t, "ok", None))
                  /\ UNCHANGED <<store, mutex, last>>
            [] OTHER ->
                  /\ mutex' = [mutex EXCEPT ![NodeOf(t)] = t]
                  /\ pc' = [pc EXCEPT ![t] = "uGet"]
                  /\ seen' = [seen EXCEPT ![t] = getCurrentRv]
                  /\ exp' = [exp EXCEPT ![t] = getCurrentRv]
                  /\ pend' = [pend EXCEPT ![t] = d.st]
                  /\ UNCHANGED <<store, op, arg, tries, got, ret, last, inst>>
    /\ UNCHANGED <<build, initKind, osEnv, currentNode, vmCleanupResults, rec, held, ops>>

(* ---------------------------------------------------------------------- *)
(* updateState                                                             *)
(* ---------------------------------------------------------------------- *)

\* the ResourceVersion check of updateState on the ConfigMap it fetched
VersionConflict(expectedResourceVersion, resourceVersion) ==
    expectedResourceVersion # 0 /\ resourceVersion # expectedResourceVersion

Written(t) ==
    [op |-> op[t], t |-> t, seen |-> seen[t], prevExists |-> store.exists,
     prevRv |-> store.rv, prevVersion |-> store.st.version,
     call |-> inst[t].call, reboot |-> inst[t].reboot]

\* updateState: Get of the ConfigMap and the ResourceVersion check
UpdateGet(t) ==
    /\ pc[t] = "uGet"
    /\ IF ~store.exists
       THEN /\ pc' = [pc EXCEPT ![t] = "uCreate"]
            /\ UNCHANGED <<mutex, rec, op, arg, tries, seen, exp, pend, got, ret, held, inst>>
       ELSE IF VersionConflict(exp[t], store.rv)
       THEN Finish(t, "conflict")
       ELSE /\ pc' = [pc EXCEPT ![t] = "uPut"]
            /\ got' = [got EXCEPT ![t] = store.rv]
            /\ UNCHANGED <<mutex, rec, op, arg, tries, seen, exp, pend, ret, held, inst>>
    /\ UNCHANGED <<build, initKind, osEnv, currentNode, vmCleanupResults, store, ops, last>>

\* updateState: Create of the ConfigMap after a NotFound
UpdateCreate(t) ==
    /\ pc[t] = "uCreate"
    /\ IF store.exists
       THEN Finish(t, "error") /\ UNCHANGED <<store, last>>
       ELSE /\ store' = [exists |-> TRUE, rv |-> 1, st |-> pend[t]]
            /\ last' = Written(t)
            /\ Finish(t, "ok")
    /\ UNCHANGED <<build, initKind, osEnv, currentNode, vmCleanupResults, ops>>

\* updateState: Update of the fetched ConfigMap; the API server rejects it
\* with 409 when the object's ResourceVersion is no longer the fetched one
UpdatePut(t) ==
    /\ pc[t] = "uPut"
    /\ IF store.rv # got[t]
       THEN Finish(t, "conflict") /\ UNCHANGED <<store, last>>
       ELSE /\ store' = [exists |-> TRUE, rv |-> store.rv + 1, st |-> pend[t]]
            /\ last' = Written(t)
            /\ Finish(t, "ok")
    /\ UNCHANGED <<build, initKind, osEnv, currentNode, vmCleanupResults, ops>>


(* ---------------------------------------------------------------------- *)
(* RecoverState                                                            *)
(* ---------------------------------------------------------------------- *)

\* NewProvider runs on one goroutine of the replica
MainThread(n) == CHOOSE t \in Threads : NodeOf(t) = n /\ \A u \in Threads : NodeOf(u) = n => t <= u

\* outcomes of the cleanup function over the node's addresses: it is called
\* for those that parse and returns nil or an error for each.  Without a
\* cleanup function nothing is called.
CleanupOutcomes(ips) ==
    IF build = "cleanup"
    THEN LET called == {ip \in ips : ~ParseAddrFails(ip)}
         IN {[ok |-> o, failed |-> called \ o] : o \in SUBSET called}
    ELSE {NoCleanup}

\* successfullyCleanedIPs: the node's addresses whose entry in
\* vmCleanupResults is nil, the addresses without an entry included
SuccessfullyCleaned(ips, results) == {ip \in ips : ip \notin results.failed}

\* RecoverState up to the updateState of releaseNodeAllocations.  The keep
\* build takes the mutex and only logs the node's rows.
RecoverStart(t) ==
    /\ pc[t] = "idle"
    /\ rec[NodeOf(t)] = "no"
    /\ t = MainThread(NodeOf(t))
    /\ build = "keep" => mutex[NodeOf(t)] = 0
    /\ LET st == getCurrentState
           mine == LocalRows(st, currentNode[NodeOf(t)].name)
           running == /\ rec' = [rec EXCEPT ![NodeOf(t)] = "running"]
                      /\ UNCHANGED <<arg, tries, got, ret, held, inst>>
       IN IF currentNode[NodeOf(t)].err # None
          THEN \* getCurrentNodeName failed: the error is returned
               RecoverDone(t, "error") /\ UNCHANGED vmCleanupResults
          ELSE IF build = "keep"
          THEN /\ running
               /\ mutex' = [mutex EXCEPT ![NodeOf(t)] = t]
               /\ pc' = [pc EXCEPT ![t] = "recRefetch"]
               /\ op' = [op EXCEPT ![t] = "repair"]
               /\ UNCHANGED <<seen, exp, pend, vmCleanupResults>>
          ELSE IF mine = {}
          THEN /\ running
               /\ pc' = [pc EXCEPT ![t] = "recRefetch"]
               /\ op' = [op EXCEPT ![t] = "repair"]
               /\ UNCHANGED <<mutex, seen, exp, pend, vmCleanupResults>>
          ELSE \E order \in Perms(mine) :
               \E results \in CleanupOutcomes({st.alloc[i].ip : i \in mine}) :
                  /\ running
                  /\ vmCleanupResults' = [vmCleanupResults EXCEPT ![NodeOf(t)] = results]
                  /\ pend' = [pend EXCEPT ![t] =
                                 releaseNodeAllocations(st, currentNode[NodeOf(t)].name, order,
                                     SuccessfullyCleaned({st.alloc[i].ip : i \in mine}, results))]
                  /\ seen' = [seen EXCEPT ![t] = getCurrentRv]
                  /\ exp' = [exp EXCEPT ![t] = IF build = "release" THEN getCurrentRv ELSE 0]
                  /\ op' = [op EXCEPT ![t] = "release"]
                  /\ pc' = [pc EXCEPT ![t] = "uGet"]
                  /\ UNCHANGED mutex
    /\ UNCHANGED <<build, initKind, osEnv, currentNode, store, ops, last>>

\* RecoverState when its getCurrentState returns an error (the Get failed or
\* the data did not unmarshal): initializeAndSaveEmptyState, whose updateState
\* fetches the ConfigMap again; when that Get fails too the error is returned
RecoverReadFails(t) ==
    /\ pc[t] = "idle"
    /\ rec[NodeOf(t)] = "no"
    /\ t = MainThread(NodeOf(t))
    /\ currentNode[NodeOf(t)].err = None
    /\ build = "keep" => mutex[NodeOf(t)] = 0
    /\ \E get \in {"answers", "fails"} :
          IF get = "fails"
          THEN RecoverDone(t, "error")
          ELSE /\ rec' = [rec EXCEPT ![NodeOf(t)] = "running"]
               /\ mutex' = [mutex EXCEPT ![NodeOf(t)] = IF build = "keep" THEN t ELSE @]
               /\ pend' = [pend EXCEPT ![t] = initializeEmptyState]
               /\ op' = [op EXCEPT ![t] = "init"]
               /\ pc' = [pc EXCEPT ![t] = "uGet"]
               /\ UNCHANGED <<arg, tries, seen, exp, got, ret, held, inst>>
    /\ UNCHANGED <<build, initKind, osEnv, currentNode, vmCleanupResults, store, ops, last>>

\* the write a build's repair step asks for after re-reading the state, or
\* none: the set of [changed, st] it can come to
RepairOutcomes(st) ==
    CASE build = "release" ->
            UNION {{validateAndRepairState(st, order, missing) :
                        missing \in Perms(validateAndRepairRows(st, order).missing)} :
                   order \in Perms(DOMAIN st.alloc)}
      [] build = "cleanup" ->
            {validateAndRepairSorted(st, order) : order \in Perms(DOMAIN st.alloc)}
      [] OTHER -> {[changed |-> TRUE, st |-> repairStateFromPrimaryConfig(st)]}

\* RecoverState re-fetches the state and repairs it against the pool
RecoverRefetch(t) ==
    /\ pc[t] = "recRefetch"
    /\ \E r \in RepairOutcomes(getCurrentState) :
          IF r.changed
          THEN /\ pend' = [pend EXCEPT ![t] = r.st]
               /\ seen' = [seen EXCEPT ![t] = getCurrentRv]
               /\ exp' = [exp EXCEPT ![t] = 0]
               /\ op' = [op EXCEPT ![t] = "repair"]
               /\ pc' = [pc EXCEPT ![t] = "uGet"]
               /\ UNCHANGED <<mutex, rec, arg, tries, got, ret, held, inst>>
          ELSE RecoverDone(t, "ok")
    /\ UNCHANGED <<build, initKind, osEnv, currentNode, vmCleanupResults, store, ops, last>>

\* RecoverState when the getCurrentState after releaseNodeAllocations returns
\* an error: the warning is logged and the nil state goes into
\* validateAndRepairState, whose first read of state.AllocatedIPs panics.  In
\* the keep build the read is the one of repairStateFromPrimaryConfig, whose
\* error is logged before RecoverState returns nil.
RecoverRefetchFails(t) ==
    /\ pc[t] = "recRefetch"
    /\ IF build = "keep" THEN RecoverDone(t, "ok") ELSE RecoverPanic(t)
    /\ UNCHANGED <<build, initKind, osEnv, currentNode, vmCleanupResults, store, ops, last>>

\* RecoverState with a cleanup function whose context is cancelled during the
\* wait that follows the reboot files: releaseNodeAllocations returns the
\* context's error before any write, RecoverState logs it, and its
\* getCurrentState on the cancelled context fails, which leaves it with a nil
\* state as in RecoverRefetchFails
RecoverCancelled(t) ==
    /\ pc[t] = "idle"
    /\ rec[NodeOf(t)] = "no"
    /\ t = MainThread(NodeOf(t))
    /\ build = "cleanup"
    /\ currentNode[NodeOf(t)].err = None
    /\ LET st == getCurrentState
           mine == LocalRows(st, currentNode[NodeOf(t)].name)
       IN /\ mine # {}
          /\ \E results \in CleanupOutcomes({st.alloc[i].ip : i \in mine}) :
                vmCleanupResults' = [vmCleanupResults EXCEPT ![NodeOf(t)] = results]
    /\ RecoverPanic(t)
    /\ UNCHANGED <<build, initKind, osEnv, currentNode, store, ops, last>>

(* ---------------------------------------------------------------------- *)
(* Provider: CreateInstance / DeleteInstance                               *)
(* ---------------------------------------------------------------------- *)

\* (podName, sandboxID) pairs the hypervisor service asks instances for
CreateInputs == {<<"podA", "s1">>, <<"podC", "s3">>}

\* fmt.Sprintf("%s-%s", podName, sandboxID)
AllocationID(podName, sandboxID) ==
    CASE podName = "podA" /\ sandboxID = "s1" -> "podA-s1"
      [] podName = "podC" /\ sandboxID = "s3" -> "podC-s3"
      [] podName = "podB" /\ sandboxID = "s2" -> "podB-s2"
      [] OTHER -> "podA-s2"

\* instance IDs handed to DeleteInstance: empty, unparsable, or an address
InstanceIDs == {"", "not-an-ip"} \cup SeqToSet(PoolIPs) \cup {RogueIP}

\* what ListAllocatedIPs shows the caller before the call
Observed == [alloc |-> getCurrentState.alloc, avail |-> SeqToSet(getCurrentState.avail)]

ClearHeld(id) == held' = [i \in AllocIDs |-> IF i = id THEN None ELSE held[i]]

\* CreateInstance up to its call of AllocateIP
CreateInstance(t, podName, sandboxID) ==
    /\ pc[t] = "idle"
    /\ inst[t].call = None
    /\ rec[NodeOf(t)] = "done"
    /\ ops < MaxOps
    /\ ops' = ops + 1
    /\ LET allocationID == AllocationID(podName, sandboxID)
       IN /\ inst' = [inst EXCEPT ![t] = [NoInst EXCEPT !.call = "create", !.id = allocationID,
                                                        !.step = "allocate", !.pre = Observed,
                                                        !.rv = getCurrentRv]]
          /\ pc' = [pc EXCEPT ![t] = "allocBody"]
          /\ op' = [op EXCEPT ![t] = "alloc"]
          /\ arg' = [arg EXCEPT ![t] = [id |-> allocationID, pod |-> podName]]
    /\ UNCHANGED <<build, initKind, osEnv, currentNode, vmCleanupResults, store, mutex, rec, tries, seen, exp, pend, got, ret, held, last>>

\* CreateInstance after AllocateIP succeeded: cloudConfig.Generate and
\* sendConfigFile; when either fails the allocation is rolled back with
\* DeallocateIP(allocationID)
CreateConfigure(t) ==
    /\ pc[t] = "idle"
    /\ inst[t].call = "create"
    /\ inst[t].step = "configure"
    /\ \E out \in {"ok", "generateFailed", "sendFailed"} :
          IF out = "ok"
          THEN /\ inst' = [inst EXCEPT ![t] = [NoInst EXCEPT !.made = inst[t].ip, !.id = inst[t].id,
                                                         !.pre = inst[t].pre, !.rv = inst[t].rv]]
               /\ UNCHANGED <<pc, op, arg, held>>
          ELSE /\ inst' = [inst EXCEPT ![t].step = "rollback"]
               /\ pc' = [pc EXCEPT ![t] = "deallocBody"]
               /\ op' = [op EXCEPT ![t] = "dealloc"]
               /\ arg' = [arg EXCEPT ![t] = [id |-> inst[t].id, pod |-> None]]
               /\ ClearHeld(inst[t].id)
    /\ UNCHANGED <<build, initKind, osEnv, currentNode, vmCleanupResults, store, mutex, rec, tries, seen, exp, pend, got, ret, ops, last>>

\* DeleteInstance up to its first step: an empty instance ID is a no-op, an
\* unparsable one an error
DeleteInstance(t, instanceID) ==
    /\ pc[t] = "idle"
    /\ inst[t].call = None
    /\ rec[NodeOf(t)] = "done"
    /\ ops < MaxOps
    /\ ops' = ops + 1
    /\ IF instanceID = "" \/ ParseAddrFails(instanceID)
       THEN UNCHANGED inst
       ELSE inst' = [inst EXCEPT ![t] = IF instanceID = inst[t].made
                                        THEN [@ EXCEPT !.call = "delete", !.ip = instanceID]
                                        ELSE [NoInst EXCEPT !.call = "delete", !.ip = instanceID]]
    /\ UNCHANGED <<build, initKind, osEnv, currentNode, vmCleanupResults, store, mutex, rec, pc, op, arg, tries, seen, exp, pend, got, ret, held, last>>

\* DeleteInstance: sendRebootFile; its failure is logged and ignored
DeleteReboot(t) ==
    /\ pc[t] = "idle"
    /\ inst[t].call = "delete"
    /\ DeleteOrder[inst[t].k + 1] = "sendRebootFile"
    /\ \E r \in {"ok", "failed"} :
          inst' = [inst EXCEPT ![t] = IF inst[t].k + 1 < Len(DeleteOrder)
                                      THEN [@ EXCEPT !.k = @ + 1, !.reboot = r]
                                      ELSE NoInst]
    /\ UNCHANGED <<build, initKind, osEnv, currentNode, vmCleanupResults, store, mutex, rec, pc, op, arg, tries, seen, exp, pend, got, ret, held, ops, last>>

\* DeallocateByIP: ListAllocatedIPs, the search for the row holding the IP,
\* and the call of DeallocateIP with the ID found
DeallocateByIP(t) ==
    /\ pc[t] = "idle"
    /\ inst[t].call = "delete"
    /\ DeleteOrder[inst[t].k + 1] = "DeallocateByIP"
    /\ LET allocatedIPs == getCurrentState.alloc
           found == {id \in DOMAIN allocatedIPs : allocatedIPs[id].ip = inst[t].ip}
       IN IF found = {}
          THEN /\ Return(t, [NoRes EXCEPT !.t = t, !.op = "deallocByIP", !.kind = "ok", !.ip = inst[t].ip])
               /\ UNCHANGED held
          ELSE \E allocationID \in found :
                  /\ pc' = [pc EXCEPT ![t] = "deallocBody"]
                  /\ op' = [op EXCEPT ![t] = "dealloc"]
                  /\ arg' = [arg EXCEPT ![t] = [id |-> allocationID, pod |-> None]]
                  /\ ClearHeld(allocationID)
                  /\ UNCHANGED <<tries, seen, exp, pend, got, ret, inst>>
    /\ UNCHANGED <<build, initKind, osEnv, currentNode, vmCleanupResults, store, mutex, rec, ops, last>>

(* ---------------------------------------------------------------------- *)
(* A replica on another node                                               *)
(* ---------------------------------------------------------------------- *)

ForeignNode == "n0"

ForeignPod == <<"podB", "s2">>

\* the ConfigMap after a write of the replica on ForeignNode
ForeignStore(o, st) ==
    /\ store' = [exists |-> TRUE, rv |-> getCurrentRv + 1, st |-> st]
    /\ last' = [NoWrite EXCEPT !.op = o, !.seen = getCurrentRv,
                               !.prevExists = store.exists, !.prevRv = store.rv,
                               !.prevVersion = store.st.version]
    /\ UNCHANGED <<build, initKind, osEnv, currentNode, vmCleanupResults, mutex, rec, pc, op, arg, tries, seen, exp, pend, got, ret, held, ops, inst>>

\* a completed AllocateIP of the replica on ForeignNode for its own pod:
\* getCurrentState, the body, and an updateState that met no conflict, seen
\* by the other replicas as one change of the ConfigMap
ForeignAllocate ==
    /\ getCurrentRv < MaxRevision
    /\ LET id == AllocationID(ForeignPod[1], ForeignPod[2])
           d == AllocateDecision(getCurrentState, id, ForeignPod[1], ForeignNode)
       IN d.kind = "write" /\ ForeignStore("alloc", d.st)

\* a completed DeallocateIP of the replica on ForeignNode for its own pod
ForeignDeallocate ==
    /\ getCurrentRv < MaxRevision
    /\ LET id == AllocationID(ForeignPod[1], ForeignPod[2])
           d == DeallocateDecision(getCurrentState, id)
       IN d.kind = "write" /\ ForeignStore("dealloc", d.st)

(* ---------------------------------------------------------------------- *)
(* Specification                                                           *)
(* ---------------------------------------------------------------------- *)

Next ==
    \/ \E t \in Threads, id \in AllocIDs, pod \in Pods : StartAllocate(t, id, pod)
    \/ \E t \in Threads : AllocBody(t)
    \/ \E t \in Threads, id \in AllocIDs : StartDeallocate(t, id)
    \/ \E t \in Threads : DeallocBody(t)
    \/ \E t \in Threads : UpdateGet(t)
    \/ \E t \in Threads : UpdateCreate(t)
    \/ \E t \in Threads : UpdatePut(t)
    \/ \E t \in Threads : RecoverStart(t)
    \/ \E t \in Threads : RecoverRefetch(t)

Spec == Init /\ [][Next]_vars

\* the replicas run the recovery of state_recovery.go
InitRelease == Init /\ build = "release"

SpecRelease == InitRelease /\ [][Next]_vars

\* the pool manager as the provider drives it: every AllocateIP and
\* DeallocateIP comes from CreateInstance or DeleteInstance
NextProvider ==
    \/ \E t \in Threads, c \in CreateInputs : CreateInstance(t, c[1], c[2])
    \/ \E t \in Threads : CreateConfigure(t)
    \/ \E t \in Threads, instanceID \in InstanceIDs : DeleteInstance(t, instanceID)
    \/ \E t \in Threads : DeleteReboot(t)
    \/ \E t \in Threads : DeallocateByIP(t)
    \/ \E t \in Threads : AllocBody(t)
    \/ \E t \in Threads : DeallocBody(t)
    \/ \E t \in Threads : UpdateGet(t)
    \/ \E t \in Threads : UpdateCreate(t)
    \/ \E t \in Threads : UpdatePut(t)
    \/ \E t \in Threads : RecoverStart(t)
    \/ \E t \in Threads : RecoverRefetch(t)

\* stores the provider runs start from: absent, or one row of another node
\* (in a state of this pool, and in one left by a run with another pool)
ProviderStores ==
    {i \in InitStores : \/ i[1] = "absent"
                        \/ /\ Cardinality(DOMAIN i[2].st.alloc) = 1
                           /\ RogueIP \notin AllocatedIPsOf(i[2].st)}

InitProvider == InitRelease /\ <<initKind, store>> \in ProviderStores

SpecProvider == InitProvider /\ [][NextProvider]_vars

\* stores a restarted provider finds: absent, a row of another node, or the
\* row of a pod of its own node whose instance is asked for again
RoundTripStores ==
    { <<"absent", NoStore>>,
      <<"wellformed", Stored(2, "old-1" :> Row("10.0.0.1", "n0", "podC"), <<"10.0.0.2", "10.0.0.3">>, 2)>>,
      <<"wellformed", Stored(2, "podA-s1" :> Row("10.0.0.2", "n1", "podA"), <<"10.0.0.1", "10.0.0.3">>, 2)>> }

InitRoundTrip == InitFrom(RoundTripStores) /\ build = "release"

SpecRoundTrip == InitRoundTrip /\ [][NextProvider]_vars

\* the two replicas next to a third one that keeps changing the ConfigMap
NextContended == Next \/ ForeignAllocate \/ ForeignDeallocate

InitContended == InitRelease /\ DOMAIN store.st.alloc = {} /\ initKind # "poolchanged"

SpecContended == InitContended /\ [][NextContended]_vars

\* stores of a cluster in which the replica of n2 restarts while pods are
\* torn down: absent, or a full pool but for one IP with a row of n2
TeardownStores ==
    { <<"absent", NoStore>>,
      <<"wellformed", Stored(3, ("podA-s1" :> Row("10.0.0.2", "n2", "podA")) @@ ("old-2" :> Row("10.0.0.1", "n0", "podC")),
                             <<"10.0.0.3">>, 3)>> }

InitTeardown == InitFrom(TeardownStores) /\ build = "release"

\* the provider's calls while the replica of another node starts a pod
NextTeardown == NextProvider \/ ForeignAllocate

SpecTeardown == InitTeardown /\ [][NextTeardown]_vars

\* stored states whose available list names an IP twice; the first grows
\* shorter when validated, the second keeps its length because 10.0.0.3 is
\* missing from it
DuplicateStores ==
    { <<"absent", NoStore>>,
      <<"duplicates", Stored(2, "old-1" :> Row("10.0.0.1", "n0", "podA"),
                             <<"10.0.0.2", "10.0.0.3", "10.0.0.2">>, 2)>>,
      <<"duplicates", Stored(2, "old-1" :> Row("10.0.0.1", "n0", "podA"),
                             <<"10.0.0.2", "10.0.0.2">>, 2)>> }

InitDuplicates == InitFrom(DuplicateStores) /\ build = "release"

\* state_recovery.go started next to a state with duplicates
SpecDuplicates == InitDuplicates /\ [][Next]_vars

\* stored states with rows of the node of a recovering replica: two rows of
\* n2, and a row of n2 whose address does not parse
CleanupStores ==
    { <<"absent", NoStore>>,
      <<"wellformed", Stored(3, ("old-1" :> Row("10.0.0.2", "n2", "podA")) @@ ("old-2" :> Row("10.0.0.1", "n2", "podC")),
                             <<"10.0.0.3">>, 3)>>,
      <<"corrupt", Stored(2, "old-1" :> Row("not-an-ip", "n2", "podA"),
                          <<"10.0.0.1", "10.0.0.2", "10.0.0.3">>, 2)>> }

InitCleanup == InitFrom(CleanupStores) /\ build = "cleanup"

\* the RecoverState that is handed a cleanup function (provider.go:626)
SpecCleanup == InitCleanup /\ [][Next]_vars

\* stored states next to an API server whose Get can fail
UnavailableStores ==
    { <<"absent", NoStore>>,
      <<"wellformed", Stored(2, "old-1" :> Row("10.0.0.2", "n2", "podA"), <<"10.0.0.1", "10.0.0.3">>, 2)>>,
      <<"wellformed", Stored(2, "old-1" :> Row("10.0.0.2", "n0", "podA"), <<"10.0.0.1", "10.0.0.3">>, 2)>> }

InitUnavailable == InitFrom(UnavailableStores) /\ build = "release"

NextUnavailable == Next \/ \E t \in Threads : RecoverReadFails(t)

\* state_recovery.go with read errors at the start of RecoverState
SpecUnavailable == InitUnavailable /\ [][NextUnavailable]_vars

\* stored states next to a replica that cannot tell its node
IdentityStores ==
    { <<"absent", NoStore>>,
      <<"wellformed", Stored(1, EmptyAlloc, PoolIPs, 1)>>,
      <<"wellformed", Stored(2, "podA-s1" :> Row("10.0.0.2", "n1", "podA"), <<"10.0.0.1", "10.0.0.3">>, 2)>> }

\* on n1 neither NODE_NAME nor the two files yield a name
InitNoIdentity ==
    /\ InitWith(IdentityStores, [n \in Replicas |-> IF n = "n1" THEN Nameless ELSE Deployed(n)])
    /\ build = "release"

SpecNoIdentity == InitNoIdentity /\ [][Next]_vars

\* no ConfigMap, or two rows of n2 whose addresses parse
CancelStores == {i \in CleanupStores : i[1] # "corrupt"}

InitCancel == InitFrom(CancelStores) /\ build = "cleanup"

\* stored states that do not partition the pool: an IP allocated and
\* available, two rows with one IP, an IP missing, an IP allocated and
\* available while another is missing, a duplicate while another is missing
MalformedStores ==
    { <<"absent", NoStore>>,
      <<"malformed", Stored(2, "old-1" :> Row("10.0.0.1", "n0", "podA"),
                            <<"10.0.0.1", "10.0.0.2", "10.0.0.3">>, 2)>>,
      <<"malformed", Stored(3, ("old-1" :> Row("10.0.0.1", "n0", "podA")) @@ ("old-2" :> Row("10.0.0.1", "n0", "podC")),
                            <<"10.0.0.2", "10.0.0.3">>, 3)>>,
      <<"malformed", Stored(1, EmptyAlloc, <<"10.0.0.1", "10.0.0.2">>, 1)>>,
      <<"malformed", Stored(2, "old-1" :> Row("10.0.0.1", "n0", "podA"), <<"10.0.0.1", "10.0.0.2">>, 2)>>,
      <<"malformed", Stored(2, "old-1" :> Row("10.0.0.1", "n0", "podA"), <<"10.0.0.2", "10.0.0.2">>, 2)>> }

InitMalformed == InitFrom(MalformedStores) /\ build \in {"release", "cleanup"}

\* the two builds that validate and repair, started next to a malformed state
SpecMalformed == InitMalformed /\ [][Next]_vars

\* stored states next to a replica whose environment varies: no ConfigMap,
\* or a row of n1
SourceStores ==
    { <<"absent", NoStore>>,
      <<"wellformed", Stored(2, "old-1" :> Row("10.0.0.2", "n1", "podA"), <<"10.0.0.1", "10.0.0.3">>, 2)>> }

\* values of NODE_NAME (unset reads as empty), of /etc/podinfo/nodename and
\* of /etc/hostname in the container on n1
EnvValues == { <<>>, <<" ">>, <<" ", "n1", "\n">> }

PodinfoContents == { Unreadable, <<>>, <<"\n">>, <<"node-1", "\n">> }

HostnameContents == { Unreadable, <<" ">>, <<"caa-pod", "\n">> }

InitSources ==
    /\ build = "release"
    /\ \E e \in EnvValues, f \in PodinfoContents, h \in HostnameContents :
          InitWith(SourceStores,
                   [n \in Replicas |-> IF n = "n1" THEN [env |-> e, podinfo |-> f, hostname |-> h]
                                                   ELSE Deployed(n)])

SpecSources == InitSources /\ [][Next]_vars

NextCancel == Next \/ \E t \in Threads : RecoverCancelled(t)

\* the RecoverState with a cleanup function, under a context that can be
\* cancelled
SpecCancel == InitCancel /\ [][NextCancel]_vars

InitRefetch == InitFrom(UnavailableStores)

NextRefetch == Next \/ \E t \in Threads : RecoverRefetchFails(t)

\* the three builds next to an API server whose Get can fail when
\* RecoverState reads the state a second time
SpecRefetch == InitRefetch /\ [][NextRefetch]_vars

\* stored states with at least two available IPs, for replicas that allocate
\* at the same time
RaceStores ==
    { <<"absent", NoStore>>,
      <<"wellformed", Stored(1, EmptyAlloc, PoolIPs, 1)>>,
      <<"wellformed", Stored(2, "old-1" :> Row("10.0.0.2", "n0", "podA"), <<"10.0.0.1", "10.0.0.3">>, 2)>> }

InitRace == InitFrom(RaceStores) /\ build = "release"

\* AllocateIP calls only
NextRace ==
    \/ \E t \in Threads, id \in AllocIDs, pod \in Pods : StartAllocate(t, id, pod)
    \/ \E t \in Threads : AllocBody(t)
    \/ \E t \in Threads : UpdateGet(t)
    \/ \E t \in Threads : UpdateCreate(t)
    \/ \E t \in Threads : UpdatePut(t)
    \/ \E t \in Threads : RecoverStart(t)
    \/ \E t \in Threads : RecoverRefetch(t)

SpecRace == InitRace /\ [][NextRace]_vars

\* a goroutine inside a call goes on: the API server answers every request
\* and the mutex is handed to a waiting goroutine
Progress(t) == AllocBody(t) \/ UpdateGet(t) \/ UpdateCreate(t) \/ UpdatePut(t) \/ RecoverRefetch(t)

SpecRaceFair == InitRace /\ [][NextRace]_vars /\ \A t \in Threads : WF_vars(Progress(t))

TypeOK ==
    /\ build \in RecoveryBuilds
    /\ store.exists \in BOOLEAN
    /\ \A t \in Threads : pc[t] \in {"idle", "allocBody", "deallocBody", "uGet", "uCreate", "uPut", "recRefetch"}
    /\ \A n \in Replicas : rec[n] \in {"no", "running", "done", "crashed"}
    /\ \A n \in Replicas : mutex[n] \in Threads \cup {0}


(* ---------------------------------------------------------------------- *)
(* Properties                                                              *)
(* ---------------------------------------------------------------------- *)

WellFormedStart == initKind \in {"absent", "wellformed"}

AfterWrite == last.op # None

PoolSet == SeqToSet(PoolIPs)

\* C1: two AllocateIP calls with different allocation IDs that both returned
\* successfully and are both still held never returned the same IP.
C1_HeldIPsDiffer ==
    \A i, j \in AllocIDs :
        (i # j /\ held[i] # None /\ held[j] # None) => held[i] # held[j]

\* C2: a write to an existing state object by an operation that read the
\* object at some revision happens only if the object is still at that
\* revision (otherwise it fails with Conflict): no lost update.
C2_WriteConditionalOnReadRevision ==
    (AfterWrite /\ last.prevExists /\ last.seen # 0) => last.seen = last.prevRv

\* C3: an operation that read the state object as absent never writes over
\* an object that another replica created in the meantime.
C3_AbsentReaderNeverOverwrites ==
    (AfterWrite /\ last.seen = 0) => ~last.prevExists

\* C4: after every successful write (absent or well-formed start), the IPs of
\* the allocation rows and the available list are disjoint.
C4_AllocatedAvailableDisjoint ==
    (WellFormedStart /\ AfterWrite) =>
        AllocatedIPsOf(store.st) \cap SeqToSet(store.st.avail) = {}

\* C5: after every successful write (absent or well-formed start), no IP
\* appears twice in the available list.
C5_AvailableNoDuplicates ==
    (WellFormedStart /\ AfterWrite) => NoDup(store.st.avail)

\* C6: after every successful write, rows plus available entries number at
\* most |pool| and every IP present is a configured pool IP.
C6_WithinConfiguredPool ==
    AfterWrite =>
        /\ Cardinality(DOMAIN store.st.alloc) + Len(store.st.avail) <= Len(PoolIPs)
        /\ AllocatedIPsOf(store.st) \cup SeqToSet(store.st.avail) \subseteq PoolSet

\* C7: once a replica has recovered, allocated and available IPs together are
\* exactly the configured pool and GetPoolStatus reports total = |pool|,
\* inUse = number of rows, available = total - inUse.
C7_PoolStatusMatchesPool ==
    (\E n \in Replicas : rec[n] = "done") =>
        LET st == getCurrentState
            s == GetPoolStatus(st)
        IN /\ AllocatedIPsOf(st) \cup SeqToSet(st.avail) = PoolSet
           /\ s.total = Len(PoolIPs)
           /\ s.inUse = Cardinality(DOMAIN st.alloc)
           /\ s.available = s.total - s.inUse

\* C8: the stored version after a successful write is greater than the
\* version stored immediately before it.
C8_VersionStrictlyIncreases ==
    AfterWrite => store.st.version > last.prevVersion

\* C9: AllocateIP for an ID that is still held from an earlier AllocateIP
\* (no deallocation of the ID in between) returns the same IP again.
C9_RepeatReturnsSameIP ==
    (ret.op = "alloc" /\ ret.kind = "ok" /\ ret.prev # None) => ret.ip = ret.prev

\* C10: when AllocateIP finds a row for its ID, it returns the row's IP in
\* the same step and leaves the stored state, version and revision as they are.
C10_IdempotentAllocateWritesNothing ==
    [][\A t \in Threads :
          (pc[t] = "allocBody" /\ arg[t].id \in DOMAIN getCurrentState.alloc /\ pc'[t] # pc[t]) =>
              /\ store' = store
              /\ pc'[t] = "idle"
              /\ ret' = [t |-> t, op |-> "alloc", id |-> arg[t].id, kind |-> "ok",
                         ip |-> getCurrentState.alloc[arg[t].id].ip, prev |-> held[arg[t].id]]]_vars


\* the thread whose updateState writes the store in this step
Writes(t) == pc[t] \in {"uPut", "uCreate"} /\ pc'[t] # pc[t] /\ store' # store

\* C11: when DeallocateIP(id) returns success the state has no row for id,
\* and while no AllocateIP(id) has been started since, no step brings a row
\* for id back: a later AllocateIP(id) finds no old row to answer from.
C11_RemovedRowStaysRemoved ==
    [][/\ (ret' # ret /\ ret'.op = "dealloc" /\ ret'.kind = "ok") =>
              ret'.id \notin DOMAIN getCurrentState'.alloc
       /\ (/\ ret.op = "dealloc"
           /\ ret.kind = "ok"
           /\ \A u \in Threads : ~(op[u] = "alloc" /\ arg[u].id = ret.id)) =>
              ret.id \notin DOMAIN getCurrentState'.alloc]_vars

\* C12: AllocateIP for an ID without a row, run on a state whose available
\* list is empty, returns PoolExhausted in that attempt: the body is not run
\* again and neither the store nor the record of writes changes.
C12_ExhaustedFailsWithoutWrite ==
    [][\A t \in Threads :
          (/\ pc[t] = "allocBody"
           /\ pc'[t] # pc[t]
           /\ arg[t].id \notin DOMAIN getCurrentState.alloc
           /\ getCurrentState.avail = <<>>) =>
              /\ store' = store
              /\ last' = last
              /\ pc'[t] = "idle"
              /\ ret' = [t |-> t, op |-> "alloc", id |-> arg[t].id, kind |-> "exhausted",
                         ip |-> None, prev |-> held[arg[t].id]]]_vars

\* C13: the body of AllocateIP / DeallocateIP is run again only after its
\* updateState failed with Conflict, any other error ends the call at once,
\* a step that writes ends the call with success, and after max_retries
\* conflicting attempts the call returns RetryExhausted without a change to
\* the store; no call runs its body more than max_retries times.
C13_RetryOnlyOnConflictUpToMaxRetries ==
    [][\A t \in Threads :
          /\ tries'[t] > tries[t] =>
                /\ op[t] \in {"alloc", "dealloc"}
                /\ \/ pc[t] = "uGet" /\ store.exists /\ VersionConflict(exp[t], store.rv)
                   \/ pc[t] = "uPut" /\ store.rv # got[t]
                /\ store' = store
                /\ tries'[t] = tries[t] + 1
          /\ (pc[t] = "uCreate" /\ store.exists /\ op[t] \in {"alloc", "dealloc"}) =>
                (pc'[t] # pc[t] => pc'[t] = "idle" /\ ret'.kind = "error" /\ store' = store)
          /\ (Writes(t) /\ op[t] \in {"alloc", "dealloc"}) =>
                pc'[t] = "idle" /\ ret'.kind = "ok"
          /\ (ret' # ret /\ ret'.t = t /\ ret'.kind = "retryExhausted") =>
                tries[t] + 1 = MaxRetries /\ store' = store
          /\ tries'[t] < MaxRetries]_vars

\* C14: DeallocateIP(id) that finds no row for id, and DeallocateByIP(ip)
\* that finds no row holding ip, return success in that step and leave the
\* stored state, its version and its revision as they are; so does a second
\* call after a successful deallocation.
C14_UnknownDeallocateIsNoOp ==
    [][\A t \in Threads :
          /\ (/\ pc[t] = "deallocBody"
              /\ pc'[t] # pc[t]
              /\ arg[t].id \notin DOMAIN getCurrentState.alloc) =>
                 /\ store' = store
                 /\ last' = last
                 /\ pc'[t] = "idle"
                 /\ ret' = [t |-> t, op |-> "dealloc", id |-> arg[t].id, kind |-> "ok",
                            ip |-> None, prev |-> None]
          /\ (/\ pc[t] = "idle"
              /\ inst[t].call = "delete"
              /\ DeleteOrder[inst[t].k + 1] = "DeallocateByIP"
              /\ inst[t].ip \notin AllocatedIPsOf(getCurrentState)
              /\ <<pc[t], inst[t]>>' # <<pc[t], inst[t]>>) =>
                 /\ store' = store
                 /\ last' = last
                 /\ pc'[t] = "idle"
                 /\ ret' = [t |-> t, op |-> "deallocByIP", id |-> None, kind |-> "ok",
                            ip |-> inst[t].ip, prev |-> None]]_vars

\* DeleteInstance freed an IP, and a second DeallocateByIP of the same IP
\* found no row and returned success with the freed state still stored
C14_Witness ==
    /\ last.op = "dealloc"
    /\ last.call = "delete"
    /\ ret.op = "deallocByIP"
    /\ ret.kind = "ok"
    /\ ret.t # last.t
    /\ ret.ip \in SeqToSet(store.st.avail)
    /\ ret.ip \notin AllocatedIPsOf(store.st)

\* C15: when CreateInstance fails in cloud-config generation or in sending
\* the user data, and nobody else wrote the store during the call, the
\* allocation map and the set of available IPs after its rollback are those
\* the caller could observe when the call started.
C15_FailedCreateRestoresPool ==
    [][\A t \in Threads :
          (/\ Writes(t)
           /\ inst[t].call = "create"
           /\ inst[t].step = "rollback"
           /\ getCurrentRv = inst[t].rv) =>
              Observed' = inst[t].pre]_vars

\* C16: a DeleteInstance(ip) whose sendRebootFile failed goes on to
\* DeallocateByIP(ip); when its deallocation is written, DeleteInstance
\* returns success, no row holds ip any more and ip is in the available list.
C16_DeleteDeallocatesAfterFailedReboot ==
    [][\A t \in Threads :
          /\ (inst[t].reboot = None /\ inst'[t].reboot = "failed") =>
                 /\ inst'[t].call = "delete"
                 /\ DeleteOrder[inst'[t].k + 1] = "DeallocateByIP"
          /\ (Writes(t) /\ inst[t].call = "delete" /\ inst[t].reboot = "failed") =>
                 /\ op[t] = "dealloc"
                 /\ ret' = [t |-> t, op |-> "dealloc", id |-> arg[t].id, kind |-> "ok",
                            ip |-> None, prev |-> None]
                 /\ inst'[t].call = None
                 /\ inst[t].ip \notin AllocatedIPsOf(getCurrentState')
                 /\ inst[t].ip \in SeqToSet(getCurrentState'.avail)]_vars

\* C17: when a DeleteInstance writes the store, its sendRebootFile has been
\* attempted and has returned, and the only IP the write makes available is
\* the one of the VM the reboot file was pushed to.
C17_RebootBeforeIPIsFreed ==
    [][\A t \in Threads :
          (Writes(t) /\ inst[t].call = "delete") =>
              /\ inst[t].reboot \in {"ok", "failed"}
              /\ SeqToSet(getCurrentState'.avail) \ SeqToSet(getCurrentState.avail)
                    \subseteq {inst[t].ip}]_vars

\* C18: when RecoverState runs while the state object is absent, then after it
\* returns the object exists with an empty allocation map, the available list
\* equal to the configured pool in configured order, and version 1
C18_AbsentRecoveryWritesFreshState ==
    [][\A n \in Replicas :
          (rec[n] = "running" /\ rec'[n] = "done" /\ ~store.exists)
              => /\ store'.exists
                 /\ store'.st = initializeEmptyState]_vars

\* C19: when RecoverState returns successfully on a replica and the stored
\* state held allocation rows whose IP is outside the configured pool, the
\* stored state has no such row any more, still has every row of the other
\* nodes whose IP is in the pool, and carries a greater version
C19_RecoveryDropsRowsOutsidePool ==
    [][\A n \in Replicas :
          LET before == getCurrentState
              after == getCurrentState'
              outside(st) == {i \in DOMAIN st.alloc : st.alloc[i].ip \notin SeqToSet(PoolIPs)}
          IN (/\ rec[n] = "running" /\ rec'[n] = "done"
              /\ ret'.kind = "ok"
              /\ store.exists
              /\ outside(before) # {})
                 => /\ outside(after) = {}
                    /\ \A i \in DOMAIN before.alloc \ outside(before) :
                          before.alloc[i].node # n
                              => i \in DOMAIN after.alloc /\ after.alloc[i] = before.alloc[i]
                    /\ after.version > before.version]_vars

\* C20: when RecoverState returns successfully on a replica and the stored
\* state did not match the configured pool (its allocated and available IPs
\* together were not the pool), the stored available list is the configured
\* pool minus the IPs of the stored rows, without duplicates, also when the
\* numbers of rows and of available IPs did not change, and the stored version
\* has been incremented
C20_RecoveryRebuildsAvailable ==
    [][\A n \in Replicas :
          LET before == getCurrentState
              after == getCurrentState'
          IN (/\ rec[n] = "running" /\ rec'[n] = "done"
              /\ ret'.kind = "ok"
              /\ store.exists
              /\ AllocatedIPsOf(before) \cup SeqToSet(before.avail) # SeqToSet(PoolIPs))
                 => /\ SeqToSet(after.avail) = SeqToSet(PoolIPs) \ AllocatedIPsOf(after)
                    /\ NoDup(after.avail)
                    /\ after.version > before.version]_vars

\* C21: when RecoverState returns successfully on a replica and the stored
\* available list named an IP more than once, the stored available list
\* names every IP at most once
C21_RecoveryRemovesDuplicates ==
    [][\A n \in Replicas :
          (/\ rec[n] = "running" /\ rec'[n] = "done"
           /\ ret'.kind = "ok"
           /\ store.exists
           /\ ~NoDup(getCurrentState.avail))
              => NoDup(getCurrentState'.avail)]_vars

\* C22: RecoverState does not release allocations because they name the local
\* node: every row of the stored state that names the node of the recovering
\* replica and whose IP is in the configured pool is still there after a write
\* of RecoverState, and its IP is not in the available list
C22_RecoveryKeepsLocalRows ==
    [][\A t \in Threads :
          (Writes(t) /\ op[t] \in {"release", "repair"}) =>
              \A i \in LocalRows(getCurrentState, NodeOf(t)) :
                  getCurrentState.alloc[i].ip \in SeqToSet(PoolIPs) =>
                      /\ i \in DOMAIN getCurrentState'.alloc
                      /\ getCurrentState'.alloc[i] = getCurrentState.alloc[i]
                      /\ getCurrentState.alloc[i].ip \notin SeqToSet(getCurrentState'.avail)]_vars

\* C23: with a cleanup function, a write of RecoverState makes the IP of a row
\* of the local node available only if the function was called for that IP
\* and returned success; a local row whose IP has no successful call (it
\* failed, or was never made) is still allocated after the write and its IP
\* is not in the available list
C23_ReleasedOnlyAfterSuccessfulCleanup ==
    [][\A t \in Threads :
          (Writes(t) /\ op[t] \in {"release", "repair"} /\ build = "cleanup") =>
              \A i \in LocalRows(getCurrentState, NodeOf(t)) :
                  LET ip == getCurrentState.alloc[i].ip
                      cleaned == ip \in vmCleanupResults[NodeOf(t)].ok
                  IN /\ (ip \in SeqToSet(getCurrentState'.avail) \ SeqToSet(getCurrentState.avail)) => cleaned
                     /\ ~cleaned => /\ i \in DOMAIN getCurrentState'.alloc
                                    /\ ip \notin SeqToSet(getCurrentState'.avail)]_vars

\* C24: when the read of the store fails during RecoverState, RecoverState
\* returns the error and the stored object stays as it is: no state is
\* written in its place
C24_ReadErrorSurfacedWithoutWrite ==
    [][\A t \in Threads :
          op[t] = "init" =>
              /\ store' = store
              /\ pc'[t] = "idle" => (ret'.op = "recover" /\ ret'.kind = "error")]_vars

\* C25: a process for which no node-identity source yields a value gets no
\* provider: none of its goroutines ever executes a pool-manager or provider
\* call, so it makes no allocation
C25_NoProviderWithoutNodeIdentity ==
    \A t \in Threads :
        currentNode[NodeOf(t)].err # None => (op[t] = None /\ inst[t].call = None)

\* C26: RecoverState runs once per process and has returned before the process
\* executes an AllocateIP or DeallocateIP; while it runs it holds the mutex of
\* its replica, so no allocator body of the replica runs during it
C26_RecoveryIsACriticalSection ==
    [][\A n \in Replicas :
          /\ rec'[n] = "running" => mutex'[n] = MainThread(n)
          /\ \A t \in Threads :
                (NodeOf(t) = n /\ op'[t] \in {"alloc", "dealloc"}) => rec'[n] = "done"
          /\ rec[n] = "done" => rec'[n] = "done"]_vars

\* the state the reconcile step is to arrive at from the state it read: the
\* rows whose IP is in the configured pool, and the rest of the pool, sorted
Reconciled(st) ==
    LET rows == {i \in DOMAIN st.alloc : st.alloc[i].ip \in SeqToSet(PoolIPs)}
    IN [alloc |-> [i \in rows |-> st.alloc[i]],
        avail |-> SortIPs(SeqToSet(PoolIPs) \ {st.alloc[i].ip : i \in rows})]

\* C27: the reconcile step of RecoverState asks for a write if and only if the
\* reconciled state differs from the state it read, comparing the rows and
\* the sorted available list by content; when they are equal it returns and
\* the store is untouched, when they differ it writes the reconciled state
\* with the version it read plus one
C27_ReconcileWritesIffDifferent ==
    [][\A t \in Threads :
          pc[t] = "recRefetch" /\ pc'[t] # "recRefetch" =>
              LET read == getCurrentState
                  differs == \/ Reconciled(read).alloc # read.alloc
                             \/ Reconciled(read).avail # SortStrings(read.avail)
              IN IF differs
                 THEN /\ pc'[t] = "uGet"
                      /\ pend'[t].alloc = Reconciled(read).alloc
                      /\ SortStrings(pend'[t].avail) = Reconciled(read).avail
                      /\ pend'[t].version = read.version + 1
                 ELSE /\ pc'[t] = "idle"
                      /\ store' = store]_vars

\* C28: RecoverState without a cleanup function releases every row that names
\* its node and keeps the rows of the other nodes whose IP is in the pool: its
\* release write removes the local rows and makes their IPs available, none
\* of its writes removes or changes a row of another node with a pool IP, and
\* when it returns successfully no row names its node
C28_RecoveryReleasesLocalRowsOnly ==
    [][\A t \in Threads :
          LET n == NodeOf(t)
              before == getCurrentState
              after == getCurrentState'
          IN /\ (Writes(t) /\ op[t] = "release") =>
                    /\ LocalRows(after, n) = {}
                    /\ \A i \in LocalRows(before, n) : before.alloc[i].ip \in SeqToSet(after.avail)
             /\ (Writes(t) /\ op[t] \in {"release", "repair"}) =>
                    \A i \in DOMAIN before.alloc :
                        (before.alloc[i].node # n /\ before.alloc[i].ip \in SeqToSet(PoolIPs))
                            => (i \in DOMAIN after.alloc /\ after.alloc[i] = before.alloc[i])
             /\ (t = MainThread(n) /\ rec[n] = "running" /\ rec'[n] = "done" /\ ret'.kind = "ok") =>
                    LocalRows(after, n) = {}]_vars

\* C29: the write of a successful DeallocateIP(id) removes exactly the row of
\* id, appends that row's IP at the end of the available list and increments
\* the version by one; the other rows and the order of the other available
\* IPs are unchanged
C29_DeallocateFrame ==
    [][\A t \in Threads :
          (Writes(t) /\ op[t] = "dealloc") =>
              LET before == getCurrentState
                  after == getCurrentState'
                  id == arg[t].id
              IN /\ id \in DOMAIN before.alloc
                 /\ DOMAIN after.alloc = DOMAIN before.alloc \ {id}
                 /\ \A i \in DOMAIN after.alloc : after.alloc[i] = before.alloc[i]
                 /\ after.avail = Append(before.avail, before.alloc[id].ip)
                 /\ after.version = before.version + 1
                 /\ ret'.t = t /\ ret'.op = "dealloc" /\ ret'.kind = "ok"]_vars

\* a DeallocateIP removed a row next to another row and a non-empty
\* available list
C29_Witness ==
    /\ last.op = "dealloc"
    /\ ret.op = "dealloc"
    /\ ret.kind = "ok"
    /\ ret.t = last.t
    /\ store.rv = last.prevRv + 1
    /\ DOMAIN store.st.alloc # {}
    /\ Len(store.st.avail) >= 2

\* the first four bytes of the MD5 digest of an allocation ID
DigestPrefix(id) ==
    CASE id = "podA-s1" -> <<150, 225, 133, 39>>
      [] id = "podB-s2" -> <<83, 163, 203, 235>>
      [] id = "podC-s3" -> <<202, 44, 198, 28>>
      [] OTHER -> <<29, 215, 209, 241>>

RECURSIVE BigEndianMod(_, _)
\* the big-endian unsigned number a byte string spells, modulo n
BigEndianMod(bytes, n) ==
    IF bytes = <<>> THEN 0
    ELSE (BigEndianMod(SubSeq(bytes, 1, Len(bytes) - 1), n) * 256 + bytes[Len(bytes)]) % n

\* C30: whatever the pod, node, goroutine and stored version, an AllocateIP
\* that finds no row for its ID selects from the available list the entry at
\* index 0 when the list has one entry and otherwise at index (first 32 bits
\* of the ID's digest, unsigned) mod |available|; the index is within the list
C30_SelectionByDigest ==
    [][\A t \in Threads :
          (pc[t] = "allocBody" /\ pc'[t] = "uGet") =>
              LET availableIPs == getCurrentState.avail
                  id == arg[t].id
                  n == Len(availableIPs)
                  k == IF n <= 1 THEN 0 ELSE BigEndianMod(DigestPrefix(id), n)
              IN /\ selectIPIndex(availableIPs, id) = k
                 /\ selectIPIndex(availableIPs, id) \in 0..(n - 1)
                 /\ pend'[t].alloc[id].ip = availableIPs[k + 1]]_vars

\* AllocateIP("podA-s1") took the second of three available IPs
C30_Witness ==
    /\ last.op = "alloc"
    /\ ret.op = "alloc"
    /\ ret.kind = "ok"
    /\ ret.t = last.t
    /\ ret.id = "podA-s1"
    /\ ret.ip = "10.0.0.2"
    /\ store.rv = last.prevRv + 1
    /\ store.st.avail = <<"10.0.0.1", "10.0.0.3">>

\* C31: a row is never changed in place: a row that is stored under an
\* allocation ID before and after a step has the same ip, node and pod after
\* the step as before it, whichever operation made the step
C31_RowsNeverMutatedInPlace ==
    [][\A i \in DOMAIN store.st.alloc \cap DOMAIN store'.st.alloc :
          store'.st.alloc[i] = store.st.alloc[i]]_vars

\* two replicas are in updateState for different allocation IDs with states
\* computed from the same stored revision, at least two IPs are available
\* and nobody else is in a call or starts one
RaceStart(t, u) ==
    /\ NodeOf(t) # NodeOf(u)
    /\ op[t] = "alloc" /\ op[u] = "alloc"
    /\ pc[t] = "uGet" /\ pc[u] = "uGet"
    /\ arg[t].id # arg[u].id
    /\ store.exists
    /\ seen[t] = store.rv /\ seen[u] = store.rv
    /\ Len(store.st.avail) >= 2
    /\ ops = MaxOps
    /\ \A v \in Threads \ {t, u} : pc[v] = "idle" /\ op[v] = None

\* both calls have returned the IP of their stored row, and the IPs differ
RaceDone ==
    /\ \A t \in Threads : pc[t] = "idle"
    /\ \A i \in AllocIDs : i \in DOMAIN store.st.alloc /\ held[i] = store.st.alloc[i].ip
    /\ \A i, j \in AllocIDs : i # j => held[i] # held[j]

C33_DifferentSelectionsBothSucceed ==
    [][\A u \in Threads :
          (/\ op[u] = "alloc"
           /\ pc[u] \in {"uGet", "uPut"}
           /\ pc'[u] # pc[u]
           /\ tries[u] = 0
           /\ seen[u] # 0
           /\ last.op = "alloc"
           /\ NodeOf(last.t) # NodeOf(u)
           /\ last.seen = seen[u]
           /\ store.rv = seen[u] + 1
           /\ arg[u].id \notin DOMAIN store.st.alloc
           /\ pend[u].alloc[arg[u].id].ip \in SeqToSet(store.st.avail)) =>
              /\ tries'[u] = 0
              /\ pc'[u] \in {"uPut", "idle"}
              /\ pc'[u] = "idle" =>
                    /\ ret'.kind = "ok"
                    /\ DOMAIN store'.st.alloc = DOMAIN store.st.alloc \cup {arg[u].id}]_vars

\* the goroutine is in the body of doAllocateIP / doDeallocateIP, between
\* its getCurrentState and the return of its updateState
InBody(t) == op[t] \in {"alloc", "dealloc"} /\ pc[t] \in {"uGet", "uCreate", "uPut"}

\* C34: while a goroutine of a replica is between the store read and the
\* store write of an AllocateIP / DeallocateIP body it holds the replica's
\* mutex, no other goroutine of the replica makes a step of such a body (no
\* read, no write), and when its updateState meets a Conflict the write that
\* moved the revision was not an AllocateIP / DeallocateIP of its own replica
C34_BodiesOfAReplicaExclusive ==
    [][\A t \in Threads :
          InBody(t) =>
              /\ mutex[NodeOf(t)] = t
              /\ \A u \in Threads \ {t} :
                    (NodeOf(u) = NodeOf(t) /\ op[u] \in {"alloc", "dealloc"}) =>
                        /\ ~InBody(u)
                        /\ pc'[u] = pc[u]
                        /\ ~Writes(u)
              /\ (tries'[t] > tries[t] \/ (ret' # ret /\ ret'.t = t /\ ret'.kind = "retryExhausted")) =>
                    ~(last.op \in {"alloc", "dealloc"} /\ last.t # 0 /\ NodeOf(last.t) = NodeOf(t)
                        /\ last.prevRv >= seen[t])]_vars

\* a goroutine of n1 is about to update the ConfigMap while the other
\* goroutine of n1 waits at the start of its body
C34_Witness ==
    \E t, u \in Threads :
        /\ t # u
        /\ NodeOf(t) = NodeOf(u)
        /\ InBody(t)
        /\ pc[t] = "uPut"
        /\ mutex[NodeOf(t)] = t
        /\ pc[u] \in {"allocBody", "deallocBody"}

\* C35: when the context is cancelled during the wait that follows the
\* reboot files, RecoverState returns with the cancellation error to its
\* caller, and the store is as it was: no IP of the node was made available
C35_CancelledSettleReturnsError ==
    [][\A t \in Threads :
          RecoverCancelled(t) =>
              /\ rec'[NodeOf(t)] = "done"
              /\ ret' = [NoRes EXCEPT !.t = t, !.op = "recover", !.kind = "error"]
              /\ store' = store]_vars

\* C40: in the builds that release the node's rows, when the read of the
\* store that follows the release fails, RecoverState returns an error to its
\* caller: the replica's process goes on, and the store is as it was
C40_FailedRefetchReturnsError ==
    [][\A t \in Threads :
          (build \in {"release", "cleanup"} /\ RecoverRefetchFails(t)) =>
              /\ rec'[NodeOf(t)] = "done"
              /\ ret' = [NoRes EXCEPT !.t = t, !.op = "recover", !.kind = "error"]
              /\ store' = store]_vars

\* C36: the node name a replica's RecoverState works with is the value, without the white space
\* around it, of the first of NODE_NAME, the downward-API file and the
\* hostname file that holds more than white space; the resolver fails when
\* there is none, and never succeeds with an empty name
C36_FirstNonBlankSourceWins ==
    \A n \in Replicas :
        LET sources == <<osEnv[n].env, osEnv[n].podinfo, osEnv[n].hostname>>
            names(i) == IF sources[i] = Unreadable THEN {}
                        ELSE {x \in SeqToSet(sources[i]) : x \notin Whitespace}
            usable == {i \in 1..3 : names(i) # {}}
            first == CHOOSE i \in usable : \A j \in usable : i <= j
        IN rec[n] # "no" =>
              /\ currentNode[n].err = None => currentNode[n].name # ""
              /\ usable = {} => currentNode[n].err # None
              /\ usable # {} => /\ currentNode[n].err = None
                                /\ currentNode[n].name \in names(first)

\* C37: every row that a write of DeallocateByIP(ip) removes held ip in the
\* state the write replaces, whatever happened between the lookup of the
\* allocation ID and the write
C37_DeallocateByIPRemovesOnlyItsIP ==
    [][\A t \in Threads :
          (Writes(t) /\ inst[t].call = "delete" /\ op[t] = "dealloc") =>
              \A i \in DOMAIN getCurrentState.alloc \ DOMAIN getCurrentState'.alloc :
                  getCurrentState.alloc[i].ip = inst[t].ip]_vars

\* what ValidatePoolIntegrity accepts: no IP in two rows, no IP twice in the
\* available list or in a row as well, and every configured IP, and no
\* other, in a row or in the list
PoolIntegrity(st) ==
    /\ \A i, j \in DOMAIN st.alloc : i # j => st.alloc[i].ip # st.alloc[j].ip
    /\ NoDup(st.avail)
    /\ AllocatedIPsOf(st) \cap SeqToSet(st.avail) = {}
    /\ AllocatedIPsOf(st) \cup SeqToSet(st.avail) = SeqToSet(PoolIPs)

\* C38: when RecoverState returns successfully next to a stored state,
\* however malformed it was, the stored state has pairwise distinct allocated
\* IPs and an available list without duplicates, disjoint from them, that
\* together with them makes up the configured pool
C38_RecoveryRestoresIntegrity ==
    [][\A n \in Replicas :
          (rec[n] = "running" /\ rec'[n] = "done" /\ ret'.kind = "ok" /\ store.exists) =>
              PoolIntegrity(getCurrentState')]_vars

C12_Witness ==
    /\ ret.op = "alloc"
    /\ ret.kind = "exhausted"
    /\ store.exists
    /\ store.st.avail = <<>>
    /\ ret.id \notin DOMAIN store.st.alloc
    /\ Cardinality(DOMAIN store.st.alloc) = Len(PoolIPs)

\* an allocation was written next to another row and left an IP available
C4_Witness ==
    /\ WellFormedStart
    /\ last.op = "alloc"
    /\ DOMAIN store.st.alloc # {}
    /\ store.st.avail # <<>>
    /\ AllocatedIPsOf(store.st) \cap SeqToSet(store.st.avail) = {}

\* a deallocation was written and appended its IP to a non-empty list
C5_Witness ==
    /\ WellFormedStart
    /\ last.op = "dealloc"
    /\ Len(store.st.avail) >= 2
    /\ NoDup(store.st.avail)

\* an AllocateIP returned the IP of a row that another replica's AllocateIP
\* wrote, and the last write is still that replica's
C10_Witness ==
    /\ ret.op = "alloc"
    /\ ret.kind = "ok"
    /\ last.op = "alloc"
    /\ last.t # ret.t
    /\ store.exists
    /\ ret.id \in DOMAIN store.st.alloc
    /\ store.st.alloc[ret.id].ip = ret.ip
    /\ store.st.alloc[ret.id].node # NodeOf(ret.t)

====
